---- MODULE Spec2Model ----
(***************************************************************************)
(* Model of the multichain seed SDK (src/src/derive.ts): derivation of     *)
(* per-chain addresses, extended public keys and watch-only addresses from *)
(* one seed.                                                               *)
(*                                                                         *)
(* Cryptographic primitives (HMAC-SHA512 chaining, secp256k1, ed25519,     *)
(* hashes, base encodings) are modelled symbolically: a key is named by    *)
(* the seed and the list of child numbers that lead to it, a hash or an    *)
(* encoding by a record of what was hashed or encoded.  The symbolic       *)
(* model builds in the BIP32 fact that the public child of a public node   *)
(* is the public key of the private child, and that hashes and encodings   *)
(* are injective.                                                          *)
(***************************************************************************)
EXTENDS Integers, Sequences, FiniteSets, TLC

VARIABLES litecoin, dogecoin, testnetNetworks, regtestNetworks, hist, limit

vars == <<litecoin, dogecoin, testnetNetworks, regtestNetworks, hist, limit>>

tables == <<litecoin, dogecoin, testnetNetworks, regtestNetworks>>

-----------------------------------------------------------------------------
(* Bounds of the explored inputs.                                          *)

MaxAccount == 1

MaxIndex == 2

MaxSeeds == 2

MaxCalls == 3

(* bytes of the address body in the character-level model of EIP-55 (20 in the code) *)
MaxAddrBytes == 2

-----------------------------------------------------------------------------
(* JavaScript numbers.  The values that matter lie next to 0, 2^31 and     *)
(* 2^32, so a number is written big * 2^31 + off with a small off.         *)

Num(k, d) == [big |-> k, off |-> d]

Small(d) == Num(0, d)

Plus(a, b) == Num(a.big + b.big, a.off + b.off)

Less(a, b) == a.big < b.big \/ (a.big = b.big /\ a.off < b.off)

Leq(a, b) == a = b \/ Less(a, b)

HIGHEST_BIT == Num(1, 0)

UInt31Max == Num(1, 0 - 1)

UInt32Max == Num(2, 0 - 1)

(* An optional value: <<>> is undefined, <<v>> is v.                       *)
Undef == <<>>

Some(v) == <<v>>

(* x ?? d *)
Nullish(x, d) == IF x = Undef THEN d ELSE x[1]

Err(msg) == [ok |-> FALSE, error |-> msg]

-----------------------------------------------------------------------------
(* Derivation-path strings, as the list of their '/'-separated pieces.     *)

TokM == [k |-> "m", n |-> Small(0), h |-> FALSE]

(* the template-literal rendering of a number, with or without a quote *)
Seg(n) == [k |-> "num", n |-> n, h |-> FALSE]

SegH(n) == [k |-> "num", n |-> n, h |-> TRUE]

(* a piece that is not a number, such as "invalid" or "0a" *)
Txt(i) == [k |-> "txt", n |-> Small(i), h |-> FALSE]

(* \d+ matches the rendering of a number iff it is not negative *)
IsDigits(tok) == tok.k = "num" /\ Leq(Small(0), tok.n)

EmptyString == <<>>

(* mutant: nothing is sliced off, the path is used whole *)
ParentPathWhole(path) == IF Len(path) <= 1 THEN EmptyString ELSE SubSeq(path, 1, Len(path))

(* path.split('/').slice(0, -1).join('/') *)
ParentPath(path) == IF Len(path) <= 1 THEN EmptyString ELSE SubSeq(path, 1, Len(path) - 1)

-----------------------------------------------------------------------------
(* Network parameters.  bitcoin.networks.* come from bitcoinjs-lib; the    *)
(* Litecoin and Dogecoin tables are module-level objects of derive.ts.     *)

Network(hrp, pub, prv, pkh, sh, w) ==
    [bech32 |-> hrp, public |-> pub, private |-> prv, pubKeyHash |-> pkh, scriptHash |-> sh, wif |-> w]

bitcoinMainnet == Network("bc", 76067358, 76066276, 0, 5, 128)

bitcoinTestnet == Network("tb", 70617039, 70615956, 111, 196, 239)

bitcoinRegtest == Network("bcrt", 70617039, 70615956, 111, 196, 239)

litecoinInit == Network("ltc", 27108450, 27106558, 48, 50, 176)

dogecoinInit == Network("null", 49990397, 49988504, 30, 22, 158)

(* { ...litecoin, bech32: 'tltc', pubKeyHash: 0x6f, scriptHash: 0x3a, wif: 0xef } *)
testnetNetworksInit ==
    [BTC |-> bitcoinTestnet,
     LTC |-> [litecoinInit EXCEPT !.bech32 = "tltc", !.pubKeyHash = 111, !.scriptHash = 58, !.wif = 239],
     DOGE |-> [dogecoinInit EXCEPT !.pubKeyHash = 113, !.scriptHash = 196, !.wif = 241]]

regtestNetworksInit ==
    [BTC |-> bitcoinRegtest,
     LTC |-> [litecoinInit EXCEPT !.bech32 = "rltc", !.pubKeyHash = 111, !.scriptHash = 58, !.wif = 239],
     DOGE |-> [dogecoinInit EXCEPT !.pubKeyHash = 113, !.scriptHash = 196, !.wif = 241]]

Chain == {"BTC", "ETH", "BSC", "DOGE", "LTC", "TRX", "XRP", "SOL"}

(* mutant: the coin types of Litecoin and Dogecoin are swapped *)
SLIP44Swapped == [BTC |-> 0, ETH |-> 60, BSC |-> 60, DOGE |-> 2, LTC |-> 3, TRX |-> 195, XRP |-> 144, SOL |-> 501]

SLIP44 == [BTC |-> 0, ETH |-> 60, BSC |-> 60, DOGE |-> 3, LTC |-> 2, TRX |-> 195, XRP |-> 144, SOL |-> 501]

DEFAULT_PURPOSE == [BTC |-> 84, LTC |-> 84, DOGE |-> 44, ETH |-> 44, BSC |-> 44, TRX |-> 44, XRP |-> 44, SOL |-> 44]

(* mutant: testnet is looked at before regtest *)
getNetworkTestnetFirst(chain, opts) ==
    IF opts.testnet THEN testnetNetworks[chain]
    ELSE IF opts.regtest THEN regtestNetworks[chain]
    ELSE CASE chain = "BTC" -> bitcoinMainnet
           [] chain = "LTC" -> litecoin
           [] chain = "DOGE" -> dogecoin

(* Get the appropriate network for BTC/LTC/DOGE based on opts *)
getNetwork(chain, opts) ==
    IF opts.regtest THEN regtestNetworks[chain]
    ELSE IF opts.testnet THEN testnetNetworks[chain]
    ELSE CASE chain = "BTC" -> bitcoinMainnet
           [] chain = "LTC" -> litecoin
           [] chain = "DOGE" -> dogecoin

-----------------------------------------------------------------------------
(* KeyTree: BIP32 over secp256k1 (package bip32).  A node is named by its  *)
(* seed and the child numbers from the root; priv tells whether it still   *)
(* holds the private scalar.                                               *)

fromSeed(seed, network) ==
    IF seed.len < 16 THEN Err("Seed should be at least 128 bits")
    ELSE IF seed.len > 64 THEN Err("Seed should be at most 512 bits")
    ELSE [ok |-> TRUE, seed |-> seed, path |-> <<>>, priv |-> TRUE, network |-> network]

(* mutant: a hardened child is derived from a public-only node as well *)
deriveAcrossHardened(node, index) ==
    IF ~node.ok THEN node
    ELSE IF Less(index, Small(0)) \/ Less(UInt32Max, index) THEN Err("Expected UInt32")
    ELSE [node EXCEPT !.path = Append(@, index)]

(* node.derive(index): a child number of 2^31 or more is a hardened step *)
derive(node, index) ==
    IF ~node.ok THEN node
    ELSE IF Less(index, Small(0)) \/ Less(UInt32Max, index) THEN Err("Expected UInt32")
    ELSE IF Leq(HIGHEST_BIT, index) /\ ~node.priv THEN Err("Missing private key for hardened child key")
    ELSE [node EXCEPT !.path = Append(@, index)]

deriveHardened(node, index) ==
    IF ~node.ok THEN node
    ELSE IF Less(index, Small(0)) \/ Less(UInt31Max, index) THEN Err("Expected UInt31")
    ELSE derive(node, Plus(index, HIGHEST_BIT))

(* /^(m\/)?(\d+'?\/)*\d+'?$/ *)
BIP32Path(path) ==
    LET body == IF Len(path) > 0 /\ path[1] = TokM THEN Tail(path) ELSE path
    IN  Len(body) >= 1 /\ \A i \in 1..Len(body) : IsDigits(body[i])

RECURSIVE deriveSteps(_, _)
deriveSteps(node, toks) ==
    IF toks = <<>> \/ ~node.ok THEN node
    ELSE deriveSteps(IF toks[1].h THEN deriveHardened(node, toks[1].n) ELSE derive(node, toks[1].n),
                     Tail(toks))

(* node.derivePath(path) *)
derivePath(node, path) ==
    IF ~node.ok THEN node
    ELSE IF ~BIP32Path(path) THEN Err("Invalid format")
    ELSE IF path[1] = TokM /\ Len(node.path) > 0 THEN Err("Expected master, got child")
    ELSE deriveSteps(node, IF path[1] = TokM THEN Tail(path) ELSE path)

neutered(node) == IF ~node.ok THEN node ELSE [node EXCEPT !.priv = FALSE]

(* The keys of a node.  The public key is the same point whether the node  *)
(* was reached with or without the private scalar.                         *)
publicKey(node) == [curve |-> "secp256k1", kind |-> "pub", seed |-> node.seed, path |-> node.path]

privateKey(node) == [curve |-> "secp256k1", kind |-> "priv", seed |-> node.seed, path |-> node.path]

(* Base58Check text of an extended key: the fields that are serialized.    *)
toBase58(node) ==
    [b58 |-> "ok",
     version |-> IF node.priv THEN node.network.private ELSE node.network.public,
     depth |-> Len(node.path),
     key |-> IF node.priv THEN privateKey(node) ELSE publicKey(node)]

NoKey == [curve |-> "none", kind |-> "none", seed |-> [id |-> 0, len |-> 0], path |-> <<>>]

(* a text that does not decode as Base58Check *)
BadText(i) == [b58 |-> "bad", version |-> i, depth |-> 0, key |-> NoKey]

(* a Base58Check text whose payload is not the 78 bytes of an extended key *)
ShortText(i) == [b58 |-> "short", version |-> i, depth |-> 0, key |-> NoKey]

(* mutant: a text that does not decode gives an empty public node *)
fromBase58Lenient(text, network) ==
    IF text.b58 # "ok"
    THEN [ok |-> TRUE, seed |-> text.key.seed, path |-> <<>>, priv |-> FALSE, network |-> network]
    ELSE IF text.version # network.private /\ text.version # network.public
         THEN Err("Invalid network version")
    ELSE IF text.version = network.private /\ text.key.kind # "priv" THEN Err("Invalid private key")
    ELSE IF text.version # network.private /\ text.key.kind # "pub" THEN Err("Point is not on the curve")
    ELSE [ok |-> TRUE, seed |-> text.key.seed, path |-> text.key.path,
          priv |-> (text.version = network.private), network |-> network]

(* bip32.fromBase58(text, network); network defaults to Bitcoin mainnet *)
fromBase58(text, network) ==
    IF text.b58 = "bad" THEN Err("Invalid checksum")
    ELSE IF text.b58 # "ok" THEN Err("Invalid buffer length")
    ELSE IF text.version # network.private /\ text.version # network.public
         THEN Err("Invalid network version")
    ELSE IF text.version = network.private /\ text.key.kind # "priv" THEN Err("Invalid private key")
    ELSE IF text.version # network.private /\ text.key.kind # "pub" THEN Err("Point is not on the curve")
    ELSE [ok |-> TRUE, seed |-> text.key.seed, path |-> text.key.path,
          priv |-> (text.version = network.private), network |-> network]

-----------------------------------------------------------------------------
(* ChainAddressCodec: hashes and encodings, by what they hash and encode.  *)

hash160(bytes) == [h |-> "ripemd160-sha256", of |-> bytes]

(* last 20 bytes of Keccak-256 of the 64-byte body of a public key *)
keccak20(point) == [h |-> "keccak256-last20", of |-> point]

Address(enc, hrp, ver, data) == [enc |-> enc, hrp |-> hrp, ver |-> ver, data |-> data]

(* bitcoin.payments.p2wpkh({ pubkey, network }).address *)
p2wpkh(pubkey, network) == Address("bech32", network.bech32, 0, hash160(pubkey))

(* bitcoin.payments.p2pkh({ pubkey, network }).address *)
p2pkh(pubkey, network) == Address("base58check", "", network.pubKeyHash, hash160(pubkey))

(* bitcoin.address.toBase58Check(hash, version) *)
toBase58Check(hash, version) == Address("base58check", "", version, hash)

(* ripple-address-codec encodeAccountID: Ripple alphabet, account type 0 *)
encodeAccountID(accountId) == Address("ripple-base58check", "", 0, accountId)

(* a private scalar and an ed25519 seed are 32 bytes, a compressed point 33 *)
byteLength(key) == IF key.kind = "priv" THEN 32 ELSE 33

(* the number of characters of a hex text: two per byte, and the prefix *)
hexLength(hex) == 2 * byteLength(hex.bytes) + (IF hex.prefix0x THEN 2 ELSE 0)

(* Buffer.from(key).toString('hex'), and the '0x' that ETH puts in front *)
toHex(key) == [enc |-> "hex", prefix0x |-> FALSE, bytes |-> key]

with0x(hex) == [hex EXCEPT !.prefix0x = TRUE]

(* priv.slice(2) drops the first two characters *)
slice2(hex) == [hex EXCEPT !.prefix0x = FALSE]

pointOf(priv) == [priv EXCEPT !.kind = "pub"]

(* new Wallet(priv).address (ethers): EIP-55 text of the key's address *)
WalletAddress(priv) == Address("eip55", "", 0, keccak20(pointOf(priv.bytes)))

(* tronWeb.address.fromPrivateKey(privHex) *)
tronFromPrivateKey(privHex) == toBase58Check(keccak20(pointOf(privHex.bytes)), 65)

(* Expand a compressed secp256k1 public key (33B) to uncompressed (65B). *)
decompressPubkey(compressed) == [form |-> "uncompressed", point |-> compressed]

(* ETH address from uncompressed secp256k1 pubkey with EIP-55 checksum *)
ethAddressFromUncompressed(uncompressed) == Address("eip55", "", 0, keccak20(uncompressed.point))

(* The same function character by character.  The two Keccak digests are   *)
(* arbitrary bytes: hashTail is hash.slice(-20), chk the digest of the     *)
(* lower-case text.  A hex character is its value and its case.            *)
HexChar(v) == [v |-> v, upper |-> FALSE]

(* String.prototype.toUpperCase on one hex character: 0-9 are left alone *)
toUpperCase(ch) == IF ch.v >= 10 THEN [ch EXCEPT !.upper = TRUE] ELSE ch

(* Buffer.from(bytes).toString('hex') *)
hexString(bytes) ==
    [k \in 1..(2 * Len(bytes)) |->
        HexChar(IF k % 2 = 1 THEN bytes[(k + 1) \div 2] \div 16 ELSE bytes[k \div 2] % 16)]

(* mutant: the low nibble is read for even positions, the high for odd *)
ethAddressTextSwapped(hashTail, chk) ==
    LET addr == hexString(hashTail)
    IN  [prefix |-> "0x",
         chars |-> [k \in 1..Len(addr) |->
                      LET i == k - 1
                          nibble == chk[(i \div 2) + 1]
                          upper == (IF i % 2 = 0 THEN nibble % 16 ELSE nibble \div 16) >= 8
                      IN  IF upper THEN toUpperCase(addr[k]) ELSE addr[k]]]

(* out = '0x'; for each i: upper ? addr[i].toUpperCase() : addr[i] *)
ethAddressText(hashTail, chk) ==
    LET addr == hexString(hashTail)
    IN  [prefix |-> "0x",
         chars |-> [k \in 1..Len(addr) |->
                      LET i == k - 1
                          nibble == chk[(i \div 2) + 1]
                          upper == (IF i % 2 = 0 THEN nibble \div 16 ELSE nibble % 16) >= 8
                      IN  IF upper THEN toUpperCase(addr[k]) ELSE addr[k]]]

-----------------------------------------------------------------------------
(* PathBuilder and the seed-based helpers of derive.ts.                    *)

(* mutant: the index option is not read, the last segment is always 0 *)
buildPathNoIndex(chain, opts) ==
    IF opts.customPath # Undef /\ opts.customPath[1] # EmptyString THEN opts.customPath[1]
    ELSE LET purpose == Small(DEFAULT_PURPOSE[chain])
             coin == Small(SLIP44[chain])
             account == Nullish(opts.account, Small(0))
             change == Nullish(opts.change, Small(0))
         IN  IF chain = "SOL" THEN <<TokM, SegH(purpose), SegH(coin), SegH(account)>>
             ELSE <<TokM, SegH(purpose), SegH(coin), SegH(account), Seg(change), Seg(Small(0))>>

(* Build standard BIP44/49/84 path m/purpose'/coin'/account'/change/index *)
buildPath(chain, opts) ==
    IF opts.customPath # Undef /\ opts.customPath[1] # EmptyString THEN opts.customPath[1]
    ELSE LET purpose == Small(DEFAULT_PURPOSE[chain])
             coin == Small(SLIP44[chain])
             account == Nullish(opts.account, Small(0))
             change == Nullish(opts.change, Small(0))
             index == Nullish(opts.index, Small(0))
         IN  IF chain = "SOL" THEN <<TokM, SegH(purpose), SegH(coin), SegH(account)>>
             ELSE <<TokM, SegH(purpose), SegH(coin), SegH(account), Seg(change), Seg(index)>>

deriveNode(seed, path, network) == derivePath(fromSeed(seed, network), path)

(* mutant: the key is taken at the full path, not at its parent *)
deriveXpubAtLeaf(seed, path, network) ==
    LET node == derivePath(fromSeed(seed, network), path)
    IN  IF ~node.ok THEN node ELSE [ok |-> TRUE, text |-> toBase58(neutered(node))]

(* mutant: the node is serialized without being neutered *)
deriveXpubNotNeutered(seed, path, network) ==
    LET parentPath == ParentPath(path)
        node == derivePath(fromSeed(seed, network), parentPath)
    IN  IF ~node.ok THEN node ELSE [ok |-> TRUE, text |-> toBase58(node)]

(* xpub should be at the parent of the last index (account/change level) *)
deriveXpub(seed, path, network) ==
    LET parentPath == ParentPath(path)
        node == derivePath(fromSeed(seed, network), parentPath)
    IN  IF ~node.ok THEN node ELSE [ok |-> TRUE, text |-> toBase58(neutered(node))]

(* Full xpub with private key capability; defined in derive.ts, never called *)
deriveFullXpub(seed, path, network) ==
    LET parentPath == ParentPath(path)
        node == derivePath(fromSeed(seed, network), parentPath)
    IN  IF ~node.ok THEN node ELSE [ok |-> TRUE, text |-> toBase58(node)]

(* ...(opts?.testnet && { testnet: true }), ...(opts?.regtest && { regtest: true }) *)
networkIndicator(opts) ==
    (IF opts.testnet THEN {"testnet"} ELSE {}) \cup (IF opts.regtest THEN {"regtest"} ELSE {})

DerivedAddress(chain, path, address, privateKeyHex, privateKeyArray, xpub, flags) ==
    [ok |-> TRUE, chain |-> chain, path |-> path, address |-> address,
     privateKeyHex |-> privateKeyHex, privateKeyArray |-> privateKeyArray,
     xpub |-> xpub, flags |-> flags]

(* BTC bech32 P2WPKH *)
addressBTC(seed, opts) ==
    LET path == buildPath("BTC", opts)
        network == getNetwork("BTC", opts)
        node == deriveNode(seed, path, network)
        xpub == deriveXpub(seed, path, network)
    IN  IF ~node.ok THEN node
        ELSE IF ~xpub.ok THEN xpub
        ELSE DerivedAddress("BTC", path, p2wpkh(publicKey(node), network),
                            Some(toHex(privateKey(node))), Undef, Some(xpub.text), {})

(* LTC bech32 P2WPKH *)
addressLTC(seed, opts) ==
    LET path == buildPath("LTC", opts)
        network == getNetwork("LTC", opts)
        node == deriveNode(seed, path, network)
        xpub == deriveXpub(seed, path, network)
    IN  IF ~node.ok THEN node
        ELSE IF ~xpub.ok THEN xpub
        ELSE DerivedAddress("LTC", path, p2wpkh(publicKey(node), network),
                            Some(toHex(privateKey(node))), Undef, Some(xpub.text), {})

(* DOGE legacy P2PKH *)
addressDOGE(seed, opts) ==
    LET path == buildPath("DOGE", opts)
        network == getNetwork("DOGE", opts)
        node == deriveNode(seed, path, network)
        xpub == deriveXpub(seed, path, network)
    IN  IF ~node.ok THEN node
        ELSE IF ~xpub.ok THEN xpub
        ELSE DerivedAddress("DOGE", path, p2pkh(publicKey(node), network),
                            Some(toHex(privateKey(node))), Undef, Some(xpub.text), {})

(* mutant: the exported key keeps the '0x' that ethers needs *)
addressEVMKeepsPrefix(chain, seed, opts) ==
    LET path == buildPath(chain, opts)
        node == deriveNode(seed, path, bitcoinMainnet)
        xpub == deriveXpub(seed, path, bitcoinMainnet)
    IN  IF ~node.ok THEN node
        ELSE IF ~xpub.ok THEN xpub
        ELSE LET priv == with0x(toHex(privateKey(node)))
             IN  DerivedAddress(chain, path, WalletAddress(priv), Some(priv), Undef,
                                Some(xpub.text), networkIndicator(opts))

(* the shape shared by addressETH and addressBSC *)
addressEVM(chain, seed, opts) ==
    LET path == buildPath(chain, opts)
        node == deriveNode(seed, path, bitcoinMainnet)
        xpub == deriveXpub(seed, path, bitcoinMainnet)
    IN  IF ~node.ok THEN node
        ELSE IF ~xpub.ok THEN xpub
        ELSE LET priv == with0x(toHex(privateKey(node)))
             IN  DerivedAddress(chain, path, WalletAddress(priv), Some(slice2(priv)), Undef,
                                Some(xpub.text), networkIndicator(opts))

(* ETH / EVM *)
addressETH(seed, opts) == addressEVM("ETH", seed, opts)

(* mutant: BSC derives under its own registered coin type 9006 *)
addressBSCOwnCoin(seed, opts) ==
    LET own == <<TokM, SegH(Small(44)), SegH(Small(9006)), SegH(Nullish(opts.account, Small(0))),
                 Seg(Nullish(opts.change, Small(0))), Seg(Nullish(opts.index, Small(0)))>>
    IN  IF opts.customPath # Undef /\ opts.customPath[1] # EmptyString
        THEN addressEVM("BSC", seed, opts)
        ELSE addressEVM("BSC", seed, [opts EXCEPT !.customPath = Some(own)])

(* BSC shares the same derivation as ETH; address format is the same *)
addressBSC(seed, opts) == addressEVM("BSC", seed, opts)

(* mutant: on testnet the Tron address is written under version byte 0xa0 *)
addressTRXTestnetVersion(seed, opts) ==
    LET path == buildPath("TRX", opts)
        node == deriveNode(seed, path, bitcoinMainnet)
        xpub == deriveXpub(seed, path, bitcoinMainnet)
    IN  IF ~node.ok THEN node
        ELSE IF ~xpub.ok THEN xpub
        ELSE LET privHex == toHex(privateKey(node))
                 address == IF opts.testnet THEN toBase58Check(keccak20(pointOf(privHex.bytes)), 160)
                            ELSE tronFromPrivateKey(privHex)
             IN  DerivedAddress("TRX", path, address, Some(privHex), Undef,
                                Some(xpub.text), networkIndicator(opts))

(* TRX (Tron): secp256k1 key, Tron base58 address via tronweb *)
addressTRX(seed, opts) ==
    LET path == buildPath("TRX", opts)
        node == deriveNode(seed, path, bitcoinMainnet)
        xpub == deriveXpub(seed, path, bitcoinMainnet)
    IN  IF ~node.ok THEN node
        ELSE IF ~xpub.ok THEN xpub
        ELSE LET privHex == toHex(privateKey(node))
             IN  DerivedAddress("TRX", path, tronFromPrivateKey(privHex), Some(privHex), Undef,
                                Some(xpub.text), networkIndicator(opts))

(* XRP: secp256k1 pubkey then XRPL classic address *)
addressXRP(seed, opts) ==
    LET path == buildPath("XRP", opts)
        node == deriveNode(seed, path, bitcoinMainnet)
        xpub == deriveXpub(seed, path, bitcoinMainnet)
    IN  IF ~node.ok THEN node
        ELSE IF ~xpub.ok THEN xpub
        ELSE DerivedAddress("XRP", path, encodeAccountID(hash160(publicKey(node))),
                            Some(toHex(privateKey(node))), Undef, Some(xpub.text),
                            networkIndicator(opts))

-----------------------------------------------------------------------------
(* SLIP-0010 over ed25519 (package ed25519-hd-key) and Solana.             *)

(* isValidPath: /^m(\/[0-9]+')+$/ *)
isValidPath(path) ==
    /\ Len(path) >= 2
    /\ path[1] = TokM
    /\ \A i \in 2..Len(path) : IsDigits(path[i]) /\ path[i].h

(* mutant: the child number is not range-checked when it is written *)
ed25519DerivePathUnchecked(path, seed) ==
    IF ~isValidPath(path) THEN Err("Invalid derivation path")
    ELSE [ok |-> TRUE,
          key |-> [curve |-> "ed25519", kind |-> "priv", seed |-> seed,
                   path |-> [i \in 1..(Len(path) - 1) |-> Plus(path[i + 1].n, HIGHEST_BIT)]]]

(* ed25519.derivePath(path, seedHex): every step is hardened; the child    *)
(* number segment + 2^31 is written as an unsigned 32-bit integer.  The    *)
(* seed is hashed whatever its length.                                     *)
ed25519DerivePath(path, seed) ==
    IF ~isValidPath(path) THEN Err("Invalid derivation path")
    ELSE IF \E i \in 2..Len(path) : Less(UInt31Max, path[i].n) THEN Err("ERR_OUT_OF_RANGE")
    ELSE [ok |-> TRUE,
          key |-> [curve |-> "ed25519", kind |-> "priv", seed |-> seed,
                   path |-> [i \in 1..(Len(path) - 1) |-> Plus(path[i + 1].n, HIGHEST_BIT)]]]

(* Array.from(priv32) *)
toArray(key) == [enc |-> "array", prefix0x |-> FALSE, bytes |-> key]

(* new PublicKey(Keypair.fromSeed(priv32).publicKey).toBase58() *)
solanaAddress(priv32) == Address("base58", "", 0, pointOf(priv32))

(* mutant: the path comes from buildPath, which leaves the index out *)
addressSOLAccountOnly(seed, opts) ==
    LET path == <<TokM, SegH(Small(44)), SegH(Small(501)), SegH(Nullish(opts.account, Small(0)))>>
        derived == ed25519DerivePath(path, seed)
    IN  IF ~derived.ok THEN Err("Failed to derive Solana address")
        ELSE DerivedAddress("SOL", path, solanaAddress(derived.key), Some(toHex(derived.key)),
                            Some(toArray(derived.key)), Undef, networkIndicator(opts))

(* mutant: Solana reports the public key of its account as an xpub *)
addressSOLWithXpub(seed, opts) ==
    LET account == Nullish(opts.account, Small(0))
        index == Nullish(opts.index, Small(0))
        trustWalletAccount == Plus(account, index)
        path == <<TokM, SegH(Small(44)), SegH(Small(501)), SegH(trustWalletAccount)>>
        derived == ed25519DerivePath(path, seed)
    IN  IF ~derived.ok THEN Err("Failed to derive Solana address")
        ELSE DerivedAddress("SOL", path, solanaAddress(derived.key), Some(toHex(derived.key)),
                            Some(toArray(derived.key)),
                            Some([b58 |-> "ok", version |-> bitcoinMainnet.public, depth |-> 3,
                                  key |-> pointOf(derived.key)]),
                            networkIndicator(opts))

(* SOL: ed25519 via SLIP-0010 (Trust Wallet style, account level derivation) *)
addressSOL(seed, opts) ==
    LET account == Nullish(opts.account, Small(0))
        index == Nullish(opts.index, Small(0))
        trustWalletAccount == Plus(account, index)
        path == <<TokM, SegH(Small(44)), SegH(Small(501)), SegH(trustWalletAccount)>>
        derived == ed25519DerivePath(path, seed)
    IN  IF ~derived.ok THEN Err("Failed to derive Solana address")
        ELSE DerivedAddress("SOL", path, solanaAddress(derived.key), Some(toHex(derived.key)),
                            Some(toArray(derived.key)), Undef, networkIndicator(opts))

deriveAddressForChain(chain, seed, opts) ==
    CASE chain = "BTC" -> addressBTC(seed, opts)
      [] chain = "LTC" -> addressLTC(seed, opts)
      [] chain = "DOGE" -> addressDOGE(seed, opts)
      [] chain = "ETH" -> addressETH(seed, opts)
      [] chain = "BSC" -> addressBSC(seed, opts)
      [] chain = "TRX" -> addressTRX(seed, opts)
      [] chain = "XRP" -> addressXRP(seed, opts)
      [] chain = "SOL" -> addressSOL(seed, opts)

-----------------------------------------------------------------------------
(* XPUB derivation functions.                                              *)

(* opts?.regtest ? 'regtest' : opts?.testnet ? 'testnet' : 'mainnet' *)
networkLabel(opts) == IF opts.regtest THEN "regtest" ELSE IF opts.testnet THEN "testnet" ELSE "mainnet"

(* regtest ? bitcoin.networks.regtest : testnet ? bitcoin.networks.testnet : bitcoin.networks.bitcoin *)
standardNetwork(testnet, regtest) ==
    IF regtest THEN bitcoinRegtest ELSE IF testnet THEN bitcoinTestnet ELSE bitcoinMainnet

(* the body shared by the seven deriveXPub<chain> functions *)
XPubResult(chain, purpose, coin, seed, opts, network) ==
    LET account == Nullish(opts.account, Small(0))
        change == Nullish(opts.change, Small(0))
        index == Nullish(opts.index, Small(0))
        fullPath == <<TokM, SegH(Small(purpose)), SegH(Small(coin)), SegH(account), Seg(change), Seg(index)>>
        xpub == deriveXpub(seed, fullPath, network)
    IN  IF ~xpub.ok THEN xpub
        ELSE [ok |-> TRUE, chain |-> chain, path |-> fullPath, xpub |-> xpub.text,
              network |-> networkLabel(opts)]

deriveXPubBTC(seed, opts) == XPubResult("BTC", 84, 0, seed, opts, getNetwork("BTC", opts))

(* mutant: the Litecoin xpub is serialized under the Litecoin network *)
deriveXPubLTCOwnNetwork(seed, opts) == XPubResult("LTC", 84, 2, seed, opts, getNetwork("LTC", opts))

deriveXPubLTC(seed, opts) == XPubResult("LTC", 84, 2, seed, opts, standardNetwork(opts.testnet, opts.regtest))

deriveXPubDOGE(seed, opts) == XPubResult("DOGE", 44, 3, seed, opts, standardNetwork(opts.testnet, opts.regtest))

deriveXPubETH(seed, opts) == XPubResult("ETH", 44, 60, seed, opts, bitcoinMainnet)

deriveXPubBSC(seed, opts) == XPubResult("BSC", 44, 60, seed, opts, bitcoinMainnet)

deriveXPubTRX(seed, opts) == XPubResult("TRX", 44, 195, seed, opts, bitcoinMainnet)

deriveXPubXRP(seed, opts) == XPubResult("XRP", 44, 144, seed, opts, bitcoinMainnet)

deriveXPubForChain(chain, seed, opts) ==
    CASE chain = "BTC" -> deriveXPubBTC(seed, opts)
      [] chain = "LTC" -> deriveXPubLTC(seed, opts)
      [] chain = "DOGE" -> deriveXPubDOGE(seed, opts)
      [] chain = "ETH" -> deriveXPubETH(seed, opts)
      [] chain = "BSC" -> deriveXPubBSC(seed, opts)
      [] chain = "TRX" -> deriveXPubTRX(seed, opts)
      [] chain = "XRP" -> deriveXPubXRP(seed, opts)
      [] chain = "SOL" -> Err("Solana does not support xpub derivation (uses ed25519)")

-----------------------------------------------------------------------------
(* Watch-only address derivation functions.                                *)

(* bip32.fromBase58(xpub, network).derive(index): the xpub is already at   *)
(* change level, just derive index                                         *)
watchChild(xpub, index, network) == derive(fromBase58(xpub, network), index)

(* `m/${purpose}'/${coin}'/0'/${change}/${index}` *)
watchPath(purpose, coin, change, index) ==
    <<TokM, SegH(Small(purpose)), SegH(Small(coin)), SegH(Small(0)), Seg(change), Seg(index)>>

WatchOnlyAddress(chain, path, address, xpub) ==
    [ok |-> TRUE, chain |-> chain, path |-> path, address |-> address, xpub |-> xpub]

deriveWatchOnlyBTC(xpub, change, index, testnet, regtest) ==
    LET network == IF regtest THEN regtestNetworks.BTC ELSE IF testnet THEN testnetNetworks.BTC ELSE bitcoinMainnet
        child == watchChild(xpub, index, network)
    IN  IF ~child.ok THEN child
        ELSE WatchOnlyAddress("BTC", watchPath(84, 0, change, index), p2wpkh(publicKey(child), network), xpub)

deriveWatchOnlyLTC(xpub, change, index, testnet, regtest) ==
    LET xpubNetwork == standardNetwork(testnet, regtest)
        child == watchChild(xpub, index, xpubNetwork)
        addressNetwork == IF regtest THEN regtestNetworks.LTC ELSE IF testnet THEN testnetNetworks.LTC ELSE litecoin
    IN  IF ~child.ok THEN child
        ELSE WatchOnlyAddress("LTC", watchPath(84, 2, change, index), p2wpkh(publicKey(child), addressNetwork), xpub)

deriveWatchOnlyDOGE(xpub, change, index, testnet, regtest) ==
    LET xpubNetwork == standardNetwork(testnet, regtest)
        child == watchChild(xpub, index, xpubNetwork)
        addressNetwork == IF regtest THEN regtestNetworks.DOGE ELSE IF testnet THEN testnetNetworks.DOGE ELSE dogecoin
    IN  IF ~child.ok THEN child
        ELSE WatchOnlyAddress("DOGE", watchPath(44, 3, change, index), p2pkh(publicKey(child), addressNetwork), xpub)

(* mutant: the change step is derived below the parsed node as well *)
deriveWatchOnlyETHThroughChange(xpub, change, index) ==
    LET child == derive(derive(fromBase58(xpub, bitcoinMainnet), change), index)
    IN  IF ~child.ok THEN child
        ELSE WatchOnlyAddress("ETH", watchPath(44, 60, change, index),
                              ethAddressFromUncompressed(decompressPubkey(publicKey(child))), xpub)

deriveWatchOnlyETH(xpub, change, index) ==
    LET child == watchChild(xpub, index, bitcoinMainnet)
    IN  IF ~child.ok THEN child
        ELSE WatchOnlyAddress("ETH", watchPath(44, 60, change, index),
                              ethAddressFromUncompressed(decompressPubkey(publicKey(child))), xpub)

deriveWatchOnlyBSC(xpub, change, index) ==
    LET child == watchChild(xpub, index, bitcoinMainnet)
    IN  IF ~child.ok THEN child
        ELSE WatchOnlyAddress("BSC", watchPath(44, 60, change, index),
                              ethAddressFromUncompressed(decompressPubkey(publicKey(child))), xpub)

(* mutant: the Bitcoin hash of the compressed key is encoded instead *)
deriveWatchOnlyTRXHash160(xpub, change, index, testnet, regtest) ==
    LET child == watchChild(xpub, index, bitcoinMainnet)
    IN  IF ~child.ok THEN child
        ELSE WatchOnlyAddress("TRX", watchPath(44, 195, change, index),
                              toBase58Check(hash160(publicKey(child)), 65), xpub)

(* 0x41 and the last 20 bytes of Keccak-256 of the key body, Base58Check *)
deriveWatchOnlyTRX(xpub, change, index, testnet, regtest) ==
    LET child == watchChild(xpub, index, bitcoinMainnet)
    IN  IF ~child.ok THEN child
        ELSE LET uncompressedPubKey == decompressPubkey(publicKey(child))
                 keccakHash == keccak20(uncompressedPubKey.point)
             IN  WatchOnlyAddress("TRX", watchPath(44, 195, change, index), toBase58Check(keccakHash, 65), xpub)

deriveWatchOnlyXRP(xpub, change, index) ==
    LET child == watchChild(xpub, index, bitcoinMainnet)
    IN  IF ~child.ok THEN child
        ELSE WatchOnlyAddress("XRP", watchPath(44, 144, change, index),
                              encodeAccountID(hash160(publicKey(child))), xpub)

(* mutant: Solana falls through to the last secp256k1 case *)
deriveWatchOnlyAddressFallThrough(chain, xpub, change, index, testnet, regtest) ==
    CASE chain = "BTC" -> deriveWatchOnlyBTC(xpub, change, index, testnet, regtest)
      [] chain = "LTC" -> deriveWatchOnlyLTC(xpub, change, index, testnet, regtest)
      [] chain = "DOGE" -> deriveWatchOnlyDOGE(xpub, change, index, testnet, regtest)
      [] chain = "ETH" -> deriveWatchOnlyETH(xpub, change, index)
      [] chain = "BSC" -> deriveWatchOnlyBSC(xpub, change, index)
      [] chain = "TRX" -> deriveWatchOnlyTRX(xpub, change, index, testnet, regtest)
      [] chain \in {"XRP", "SOL"} -> deriveWatchOnlyXRP(xpub, change, index)

deriveWatchOnlyAddress(chain, xpub, change, index, testnet, regtest) ==
    CASE chain = "BTC" -> deriveWatchOnlyBTC(xpub, change, index, testnet, regtest)
      [] chain = "LTC" -> deriveWatchOnlyLTC(xpub, change, index, testnet, regtest)
      [] chain = "DOGE" -> deriveWatchOnlyDOGE(xpub, change, index, testnet, regtest)
      [] chain = "ETH" -> deriveWatchOnlyETH(xpub, change, index)
      [] chain = "BSC" -> deriveWatchOnlyBSC(xpub, change, index)
      [] chain = "TRX" -> deriveWatchOnlyTRX(xpub, change, index, testnet, regtest)
      [] chain = "XRP" -> deriveWatchOnlyXRP(xpub, change, index)
      [] chain = "SOL" -> Err("Solana does not support watch-only derivation (uses ed25519)")

-----------------------------------------------------------------------------
(* The inputs the callers draw from.                                       *)

Seed(i, n) == [id |-> i, len |-> n]

ShortSeed == Seed(0, 15)

(* seeds the key tree accepts: one of 16 bytes, the others of 64 *)
ValidSeeds == {Seed(i, IF i = 1 THEN 16 ELSE 64) : i \in 1..MaxSeeds}

Seeds == {ShortSeed} \cup ValidSeeds

Flags == BOOLEAN \X BOOLEAN

LargeNumbers == {UInt31Max, HIGHEST_BIT}

AccountValues == {Small(d) : d \in (-1)..MaxAccount} \cup LargeNumbers

IndexValues == {Small(d) : d \in (-1)..MaxIndex} \cup LargeNumbers

ChangeValues == {Small(0), Small(1)}

Optional(S) == {Undef} \cup {Some(v) : v \in S}

(* "m/44'/60'/0'/0/0" *)
PathEth == <<TokM, SegH(Small(44)), SegH(Small(60)), SegH(Small(0)), Seg(Small(0)), Seg(Small(0))>>

(* "m/44'/501'/7'": every step hardened *)
PathHardened == <<TokM, SegH(Small(44)), SegH(Small(501)), SegH(Small(7))>>

(* "m/0": a single step below the master key *)
PathShort == <<TokM, Seg(Small(0))>>

(* "invalid/path" *)
PathInvalid == <<Txt(1), Txt(2)>>

(* "m/44'/60'/0'/0/0a": the last piece is not a number *)
PathBadSegment == <<TokM, SegH(Small(44)), SegH(Small(60)), SegH(Small(0)), Seg(Small(0)), Txt(3)>>

MkOpts(account, change, index, customPath, testnet, regtest) ==
    [account |-> account, change |-> change, index |-> index, customPath |-> customPath,
     testnet |-> testnet, regtest |-> regtest]

(* options with no usable customPath: every account, change and index *)
OptsDefault ==
    {MkOpts(a, c, i, p, f[1], f[2]) :
        a \in Optional(AccountValues), c \in Optional(ChangeValues), i \in Optional(IndexValues),
        p \in {Undef, Some(EmptyString)}, f \in Flags}

(* options with a customPath *)
OptsCustom ==
    {MkOpts(a, Undef, i, Some(p), f[1], f[2]) :
        a \in {Undef, Some(Small(1))}, i \in {Undef, Some(Small(2))},
        p \in {PathEth, PathHardened, PathShort, PathInvalid, PathBadSegment}, f \in Flags}

Opts == OptsDefault \cup OptsCustom

XPubOpts == {o \in Opts : o.customPath # Some(EmptyString)}

(* Extended-key texts a caller may hold: what deriveXPubForChain and the   *)
(* xpub field of deriveAddressForChain give for accepted seeds, the        *)
(* private-capable texts of deriveFullXpub, and texts that are no key.     *)
KeyOpts ==
    {MkOpts(Some(a), Some(c), Undef, Undef, f[1], f[2]) :
        a \in {Small(d) : d \in 0..MaxAccount} \cup {UInt31Max}, c \in ChangeValues, f \in Flags}

XPubChains == Chain \ {"SOL"}

PublicTexts ==
    {deriveXPubForChain(c, s, o).xpub : c \in XPubChains, s \in ValidSeeds, o \in KeyOpts}
    \cup {deriveAddressForChain(c, s, o).xpub[1] : c \in XPubChains, s \in ValidSeeds, o \in KeyOpts}

PrivateTexts ==
    {deriveFullXpub(s, buildPath(c, MkOpts(Undef, Some(ch), Undef, Undef, FALSE, FALSE)), n).text :
        c \in XPubChains, s \in ValidSeeds, ch \in ChangeValues, n \in {bitcoinMainnet, bitcoinTestnet}}

KeyTexts == PublicTexts \cup PrivateTexts \cup {BadText(1), ShortText(1)}

-----------------------------------------------------------------------------
(* The calls.  hist is the record of the calls made so far, each with its  *)
(* arguments and what it returned or that it threw.                        *)

AddressCall(chain, seed, opts, res) ==
    [op |-> "deriveAddressForChain", chain |-> chain, seed |-> seed, opts |-> opts, res |-> res]

XPubCall(chain, seed, opts, res) ==
    [op |-> "deriveXPubForChain", chain |-> chain, seed |-> seed, opts |-> opts, res |-> res]

WatchCall(chain, xpub, change, index, testnet, regtest, res) ==
    [op |-> "deriveWatchOnlyAddress", chain |-> chain, xpub |-> xpub, change |-> change,
     index |-> index, testnet |-> testnet, regtest |-> regtest, res |-> res]

TablesInit ==
    /\ litecoin = litecoinInit
    /\ dogecoin = dogecoinInit
    /\ testnetNetworks = testnetNetworksInit
    /\ regtestNetworks = regtestNetworksInit

(* one call, any arguments *)
Init == TablesInit /\ hist = <<>> /\ limit = 1

(* mutant: a testnet call overwrites the shared Litecoin table in place *)
CallDeriveAddressForChainInPlace(chain, seed, opts) ==
    /\ hist' = Append(hist, AddressCall(chain, seed, opts, deriveAddressForChain(chain, seed, opts)))
    /\ litecoin' = IF chain = "LTC" /\ opts.testnet THEN testnetNetworks.LTC ELSE litecoin
    /\ UNCHANGED <<dogecoin, testnetNetworks, regtestNetworks, limit>>

CallDeriveAddressForChain(chain, seed, opts) ==
    /\ hist' = Append(hist, AddressCall(chain, seed, opts, deriveAddressForChain(chain, seed, opts)))
    /\ UNCHANGED <<tables, limit>>

CallDeriveXPubForChain(chain, seed, opts) ==
    /\ hist' = Append(hist, XPubCall(chain, seed, opts, deriveXPubForChain(chain, seed, opts)))
    /\ UNCHANGED <<tables, limit>>

(* mutant: a mainnet watch-only call stores its address network in the    *)
(* shared testnet table                                                    *)
CallDeriveWatchOnlyAddressCaching(chain, xpub, change, index, testnet, regtest) ==
    /\ hist' = Append(hist, WatchCall(chain, xpub, change, index, testnet, regtest,
                                      deriveWatchOnlyAddress(chain, xpub, change, index, testnet, regtest)))
    /\ testnetNetworks' = IF chain = "LTC" /\ ~testnet /\ ~regtest
                           THEN [testnetNetworks EXCEPT !.LTC = litecoin] ELSE testnetNetworks
    /\ UNCHANGED <<litecoin, dogecoin, regtestNetworks, limit>>

CallDeriveWatchOnlyAddress(chain, xpub, change, index, testnet, regtest) ==
    /\ hist' = Append(hist, WatchCall(chain, xpub, change, index, testnet, regtest,
                                      deriveWatchOnlyAddress(chain, xpub, change, index, testnet, regtest)))
    /\ UNCHANGED <<tables, limit>>

Next ==
    /\ Len(hist) < limit
    /\ \/ \E chain \in Chain, seed \in Seeds, opts \in Opts : CallDeriveAddressForChain(chain, seed, opts)
       \/ \E chain \in Chain, seed \in Seeds, opts \in XPubOpts : CallDeriveXPubForChain(chain, seed, opts)
       \/ \E chain \in Chain, xpub \in KeyTexts, change \in ChangeValues, index \in IndexValues, f \in Flags :
             CallDeriveWatchOnlyAddress(chain, xpub, change, index, f[1], f[2])

Spec == Init /\ [][Next]_vars

(* A session of several calls over a few arguments, to compare the calls   *)
(* of one history with each other.                                         *)
HistSeeds == {ShortSeed, Seed(1, 16)}

HistOpts == {MkOpts(Undef, Undef, Undef, Undef, t, FALSE) : t \in BOOLEAN}

HistChains == {"LTC", "SOL"}

HistKeyTexts == {deriveXPubLTC(Seed(1, 16), o).xpub : o \in HistOpts}

InitHist == TablesInit /\ hist = <<>> /\ limit = MaxCalls

NextHist ==
    /\ Len(hist) < limit
    /\ \/ \E chain \in HistChains, seed \in HistSeeds, opts \in HistOpts :
             CallDeriveAddressForChain(chain, seed, opts)
       \/ \E chain \in HistChains, opts \in HistOpts : CallDeriveXPubForChain(chain, Seed(1, 16), opts)
       \/ \E xpub \in HistKeyTexts, testnet \in BOOLEAN :
             CallDeriveWatchOnlyAddress("LTC", xpub, Small(0), Small(0), testnet, FALSE)

SpecHist == InitHist /\ [][NextHist]_vars

(* One call of ethAddressFromUncompressed on a key whose two digests are   *)
(* any bytes: 0x09, 0x7a, 0xa7, 0x8f, 0xf8, 0xff put decimal digits and    *)
(* letters under high and low nibbles on both sides of 8.                  *)
ByteValues == {9, 122, 167, 143, 248, 255}

Digests == [1..MaxAddrBytes -> ByteValues]

ChecksumCall(hashTail, chk, res) ==
    [op |-> "ethAddressFromUncompressed", hashTail |-> hashTail, chk |-> chk, res |-> res]

CallEthAddressFromUncompressed(hashTail, chk) ==
    /\ hist' = Append(hist, ChecksumCall(hashTail, chk, ethAddressText(hashTail, chk)))
    /\ UNCHANGED <<tables, limit>>

NextEip55 ==
    /\ Len(hist) < limit
    /\ \E hashTail \in Digests, chk \in Digests : CallEthAddressFromUncompressed(hashTail, chk)

SpecEip55 == Init /\ [][NextEip55]_vars

-----------------------------------------------------------------------------
(* Properties.                                                             *)

IsAddressCall(c) == c.op = "deriveAddressForChain"

IsXPubCall(c) == c.op = "deriveXPubForChain"

IsWatchCall(c) == c.op = "deriveWatchOnlyAddress"

Calls == {hist[k] : k \in 1..Len(hist)}

NonHardened(index) == Leq(Small(0), index) /\ Leq(index, UInt31Max)

KeyAccounts == {Small(d) : d \in 0..MaxAccount} \cup {UInt31Max}

(* A key text names the seed it was serialized from, so no other seed can  *)
(* have produced it: the seeds to compare a watch-only call against.       *)
MakersOf(text) == {seed \in ValidSeeds : seed = text.key.seed}

(* C1: on mainnet, the watch-only address derived from the xpub that       *)
(* deriveXPubForChain gives for (seed, account, change) equals, at every   *)
(* non-hardened index, the address deriveAddressForChain gives for the     *)
(* same seed, account, change and index, for each of the seven chains.     *)
WatchOnlyEquivalence ==
    \A c \in Calls :
        (IsWatchCall(c) /\ ~c.testnet /\ ~c.regtest /\ NonHardened(c.index)) =>
            \A seed \in MakersOf(c.xpub), account \in KeyAccounts :
                LET o == MkOpts(Some(account), Some(c.change), Undef, Undef, FALSE, FALSE)
                    x == deriveXPubForChain(c.chain, seed, o)
                    a == deriveAddressForChain(c.chain, seed, [o EXCEPT !.index = Some(c.index)])
                IN  /\ c.chain \in XPubChains => x.ok
                    /\ (x.ok /\ x.xpub = c.xpub) => (c.res.ok /\ a.ok /\ c.res.address = a.address)

WatchOnlyEquivalenceWitness ==
    \E c \in Calls :
        /\ IsWatchCall(c) /\ c.chain = "TRX" /\ ~c.testnet /\ ~c.regtest
        /\ c.index = Small(2) /\ c.change = Small(1)
        /\ c.xpub = deriveXPubForChain("TRX", Seed(1, 16),
                        MkOpts(Some(Small(1)), Some(Small(1)), Undef, Undef, FALSE, FALSE)).xpub
        /\ c.res.ok

AllNetworks ==
    {bitcoinMainnet, bitcoinTestnet, bitcoinRegtest, litecoin, dogecoin}
    \cup {testnetNetworks[c] : c \in {"BTC", "LTC", "DOGE"}}
    \cup {regtestNetworks[c] : c \in {"BTC", "LTC", "DOGE"}}

(* the extended-key texts a seed-based call returned *)
ReturnedXpubs(c) ==
    IF ~c.res.ok THEN {}
    ELSE IF IsXPubCall(c) THEN {c.res.xpub}
    ELSE IF IsAddressCall(c) THEN {c.res.xpub[i] : i \in 1..Len(c.res.xpub)}
    ELSE {}

(* C2: every xpub that deriveXPubForChain or deriveAddressForChain returns *)
(* is the text of a neutered node: it holds a public key under a public    *)
(* version, and is never the text deriveFullXpub makes for that path.      *)
XpubsAreNeutered ==
    \A c \in Calls : \A t \in ReturnedXpubs(c) :
        /\ t.key.kind = "pub"
        /\ \A n \in AllNetworks :
              /\ t.version # n.private
              /\ LET full == deriveFullXpub(c.seed, c.res.path, n)
                 IN  full.ok => t # full.text

XpubsAreNeuteredWitness ==
    \E c \in Calls :
        /\ IsAddressCall(c) /\ c.chain = "LTC" /\ c.opts.testnet /\ c.res.ok
        /\ c.res.xpub # Undef /\ c.res.xpub[1].version = litecoinInit.public

(* C3 as stated: a watch-only call that succeeds parsed, and echoes in its *)
(* xpub field, a public-only extended key; a private one is rejected.      *)
WatchOnlyRejectsPrivateKeys ==
    \A c \in Calls : (IsWatchCall(c) /\ c.res.ok) => c.res.xpub.key.kind = "pub"

(* C4: for Solana, deriveXPubForChain and deriveWatchOnlyAddress throw for *)
(* every input and return nothing.                                         *)
SolanaExclusions ==
    \A c \in Calls : (c.chain = "SOL" /\ (IsXPubCall(c) \/ IsWatchCall(c))) => ~c.res.ok

SolanaExclusionsWitness ==
    \E c \in Calls :
        /\ IsWatchCall(c) /\ c.chain = "SOL" /\ ~c.res.ok
        /\ c.xpub = deriveXPubForChain("XRP", Seed(1, 16),
                        MkOpts(Some(Small(0)), Some(Small(0)), Undef, Undef, FALSE, FALSE)).xpub
        /\ c.index = Small(0)

(* C5 as stated: deriveAddressForChain fails, on each of the eight chains, *)
(* whenever the seed is shorter than 16 bytes.                             *)
SeedLengthGuard ==
    \A c \in Calls : (IsAddressCall(c) /\ c.seed.len < 16) => ~c.res.ok

SameArguments(c, d) ==
    /\ c.op = d.op /\ c.chain = d.chain
    /\ IF IsWatchCall(c)
       THEN /\ c.xpub = d.xpub /\ c.change = d.change /\ c.index = d.index
            /\ c.testnet = d.testnet /\ c.regtest = d.regtest
       ELSE c.seed = d.seed /\ c.opts = d.opts

(* C6: two deriveAddressForChain calls of one history with the same chain, *)
(* seed and options return the same result (path, address, private key),   *)
(* whatever calls, successful or failed, were made before or in between.   *)
Determinism ==
    \A i \in 1..Len(hist), j \in 1..Len(hist) :
        (IsAddressCall(hist[i]) /\ SameArguments(hist[i], hist[j])) => hist[i].res = hist[j].res

DeterminismWitness ==
    /\ Len(hist) = 3
    /\ IsAddressCall(hist[1]) /\ hist[1].chain = "LTC" /\ hist[1].res.ok /\ ~hist[1].opts.testnet
    /\ IsAddressCall(hist[2]) /\ hist[2].chain = "LTC" /\ hist[2].res.ok /\ hist[2].opts.testnet
    /\ SameArguments(hist[1], hist[3])

HasCustomPath(opts) == opts.customPath # Undef /\ opts.customPath[1] # EmptyString

(* the child numbers a path stands for, a quoted step being hardened *)
ChildNumbers(path) ==
    [i \in 1..(Len(path) - 1) |->
        IF path[i + 1].h THEN Plus(path[i + 1].n, HIGHEST_BIT) ELSE path[i + 1].n]

(* C7 as stated: with a non-empty customPath, a successful                 *)
(* deriveAddressForChain returns that path and the key derived along it,   *)
(* on every chain, Solana included.                                        *)
CustomPathOverride ==
    \A c \in Calls :
        (IsAddressCall(c) /\ HasCustomPath(c.opts) /\ c.res.ok) =>
            /\ c.res.path = c.opts.customPath[1]
            /\ c.res.privateKeyHex[1].bytes.path = ChildNumbers(c.opts.customPath[1])

ClaimedPurposeCoin ==
    [BTC |-> <<84, 0>>, LTC |-> <<84, 2>>, DOGE |-> <<44, 3>>, ETH |-> <<44, 60>>,
     BSC |-> <<44, 60>>, TRX |-> <<44, 195>>, XRP |-> <<44, 144>>]

(* C8: without customPath, a successful deriveAddressForChain on a chain   *)
(* other than Solana reports m/P'/C'/account'/change/index with (P, C)     *)
(* from the table above and 0 for each omitted account, change and index.  *)
DefaultPathTable ==
    \A c \in Calls :
        (IsAddressCall(c) /\ c.chain # "SOL" /\ c.opts.customPath = Undef /\ c.res.ok) =>
            c.res.path = <<TokM, SegH(Small(ClaimedPurposeCoin[c.chain][1])),
                           SegH(Small(ClaimedPurposeCoin[c.chain][2])),
                           SegH(IF c.opts.account = Undef THEN Small(0) ELSE c.opts.account[1]),
                           Seg(IF c.opts.change = Undef THEN Small(0) ELSE c.opts.change[1]),
                           Seg(IF c.opts.index = Undef THEN Small(0) ELSE c.opts.index[1])>>

DefaultPathTableWitness ==
    \E c \in Calls :
        /\ IsAddressCall(c) /\ c.chain = "DOGE" /\ c.res.ok /\ c.opts.customPath = Undef
        /\ c.opts.account = Undef /\ c.opts.change = Some(Small(1)) /\ c.opts.index = Some(Small(2))

SolSum(opts) == Plus(Nullish(opts.account, Small(0)), Nullish(opts.index, Small(0)))

OtherEvm(chain) == IF chain = "ETH" THEN "BSC" ELSE "ETH"

(* C10: for the same seed and options, deriveAddressForChain on ETH and on *)
(* BSC both fail or both succeed, and then return the same address, path   *)
(* and private key: the results differ in the chain field only.            *)
EthBscIdentity ==
    \A c \in Calls :
        (IsAddressCall(c) /\ c.chain \in {"ETH", "BSC"}) =>
            LET r == deriveAddressForChain(OtherEvm(c.chain), c.seed, c.opts)
            IN  /\ r.ok = c.res.ok
                /\ c.res.ok =>
                      /\ r.address = c.res.address /\ r.path = c.res.path
                      /\ r.privateKeyHex = c.res.privateKeyHex
                      /\ r.chain # c.res.chain
                      /\ [r EXCEPT !.chain = c.res.chain] = c.res

EthBscIdentityWitness ==
    \E c \in Calls :
        /\ IsAddressCall(c) /\ c.chain = "ETH" /\ c.res.ok
        /\ c.opts.account = Some(Small(1)) /\ c.opts.index = Some(Small(2)) /\ c.opts.testnet
        /\ c.opts.customPath = Undef

Encodings == {"bech32", "base58check", "ripple-base58check", "eip55", "base58"}

(* C11: a successful deriveAddressForChain result carries its chain, a     *)
(* path, an address and privateKeyHex; its xpub is defined on the seven    *)
(* secp256k1 chains and undefined on Solana.                               *)
ResultShape ==
    \A c \in Calls :
        (IsAddressCall(c) /\ c.res.ok) =>
            /\ c.res.chain = c.chain
            /\ Len(c.res.path) > 0
            /\ c.res.address.enc \in Encodings
            /\ c.res.privateKeyHex # Undef
            /\ (c.res.xpub # Undef) <=> (c.chain # "SOL")

ResultShapeWitness ==
    \E c \in Calls :
        /\ IsAddressCall(c) /\ c.chain = "SOL" /\ c.res.ok
        /\ c.res.xpub = Undef /\ c.res.privateKeyHex # Undef /\ c.res.privateKeyArray # Undef

Negative(x) == x # Undef /\ Less(x[1], Small(0))

(* C12 as stated: deriveAddressForChain fails, on each of the eight        *)
(* chains, whenever opts.account or opts.index is negative.                *)
NegativeInputsRejected ==
    \A c \in Calls :
        (IsAddressCall(c) /\ (Negative(c.opts.account) \/ Negative(c.opts.index))) => ~c.res.ok

(* C13 as stated: deriveAddressForChain fails, on each of the eight        *)
(* chains, when customPath is non-empty and is not derivation-path syntax. *)
MalformedPathsRejected ==
    \A c \in Calls :
        (IsAddressCall(c) /\ HasCustomPath(c.opts) /\ ~BIP32Path(c.opts.customPath[1])) => ~c.res.ok

(* C14: deriveWatchOnlyAddress given a public-only extended key and an     *)
(* index of 2^31 or more fails and returns no address, on every chain.     *)
WatchOnlyHardenedFails ==
    \A c \in Calls :
        (IsWatchCall(c) /\ c.xpub.key.kind = "pub" /\ Leq(HIGHEST_BIT, c.index)) => ~c.res.ok

WatchOnlyHardenedFailsWitness ==
    \E c \in Calls :
        /\ IsWatchCall(c) /\ c.chain = "ETH" /\ c.index = HIGHEST_BIT
        /\ c.xpub = deriveXPubForChain("ETH", Seed(1, 16),
                        MkOpts(Some(Small(0)), Some(Small(0)), Undef, Undef, FALSE, FALSE)).xpub
        /\ c.res = Err("Missing private key for hardened child key")

(* the xpubs deriveXPubForChain gives on a chain with the testnet option   *)
(* as given (regtest off)                                                  *)
XpubsFor(chain, testnet) ==
    {x.xpub : x \in {r \in {deriveXPubForChain(chain, seed,
                                  MkOpts(Some(account), Some(change), Undef, Undef, testnet, FALSE)) :
                              seed \in ValidSeeds, account \in KeyAccounts, change \in ChangeValues} : r.ok}}

(* C15 as stated: on every chain with xpubs, deriveWatchOnlyAddress        *)
(* rejects with testnet = false an xpub made with testnet: true, and with  *)
(* testnet = true an xpub made for mainnet.                                *)
TestnetMainnetIncompatible ==
    \A c \in Calls :
        (IsWatchCall(c) /\ ~c.regtest /\ c.chain \in XPubChains
            /\ c.xpub \in XpubsFor(c.chain, ~c.testnet)) => ~c.res.ok

(* C16: deriveWatchOnlyAddress throws, on every chain and for every index  *)
(* and flag, when the xpub argument is not the Base58Check text of an      *)
(* extended key (bad checksum or alphabet, or a payload of another size).  *)
MalformedKeysRejected ==
    \A c \in Calls : (IsWatchCall(c) /\ c.xpub.b58 # "ok") => ~c.res.ok

MalformedKeysRejectedWitness ==
    \E c \in Calls :
        /\ IsWatchCall(c) /\ c.chain = "DOGE" /\ c.xpub = BadText(1) /\ c.index = Small(0)
        /\ c.res = Err("Invalid checksum")

(* C17: with testnet or regtest set, and the same flags given to all three *)
(* operations, the watch-only address derived from the xpub of             *)
(* deriveXPubForChain for (seed, account, change) equals, at every         *)
(* non-hardened index, the address of deriveAddressForChain, on each of    *)
(* the seven chains.                                                       *)
WatchOnlyEquivalenceTestNetworks ==
    \A c \in Calls :
        (IsWatchCall(c) /\ (c.testnet \/ c.regtest) /\ NonHardened(c.index)) =>
            \A seed \in MakersOf(c.xpub), account \in KeyAccounts :
                LET o == MkOpts(Some(account), Some(c.change), Undef, Undef, c.testnet, c.regtest)
                    x == deriveXPubForChain(c.chain, seed, o)
                    a == deriveAddressForChain(c.chain, seed, [o EXCEPT !.index = Some(c.index)])
                IN  /\ c.chain \in XPubChains => x.ok
                    /\ (x.ok /\ x.xpub = c.xpub) => (c.res.ok /\ a.ok /\ c.res.address = a.address)

WatchOnlyEquivalenceTestNetworksWitness ==
    \E c \in Calls :
        /\ IsWatchCall(c) /\ c.chain = "LTC" /\ c.testnet /\ ~c.regtest
        /\ c.index = Small(2) /\ c.change = Small(1)
        /\ c.xpub = deriveXPubForChain("LTC", Seed(1, 16),
                        MkOpts(Some(Small(1)), Some(Small(1)), Undef, Undef, TRUE, FALSE)).xpub
        /\ c.res.ok /\ c.res.address.hrp = "tltc"

(* mainnet, testnet, regtest: 1, 2, 3; regtest wins when both are set *)
Selected(testnet, regtest) == IF regtest THEN 3 ELSE IF testnet THEN 2 ELSE 1

ClaimedPrefix == [BTC |-> <<"bc", "tb", "bcrt">>, LTC |-> <<"ltc", "tltc", "rltc">>]

ClaimedDogeVersion == <<30, 113, 113>>

ClaimedParameters(chain, address, testnet, regtest) ==
    IF chain = "DOGE"
    THEN address.enc = "base58check" /\ address.ver = ClaimedDogeVersion[Selected(testnet, regtest)]
    ELSE address.enc = "bech32" /\ address.hrp = ClaimedPrefix[chain][Selected(testnet, regtest)]

(* C18: the address of a successful BTC, LTC or DOGE call carries the      *)
(* prefix or version byte that the call's own testnet and regtest options  *)
(* select (bc/tb/bcrt, ltc/tltc/rltc, 0x1e/0x71/0x71, regtest first), the  *)
(* same for deriveAddressForChain and deriveWatchOnlyAddress.              *)
NetworkSelection ==
    \A c \in Calls :
        (c.chain \in {"BTC", "LTC", "DOGE"} /\ c.res.ok) =>
            /\ IsAddressCall(c) => ClaimedParameters(c.chain, c.res.address, c.opts.testnet, c.opts.regtest)
            /\ IsWatchCall(c) => ClaimedParameters(c.chain, c.res.address, c.testnet, c.regtest)

NetworkSelectionWitness ==
    \E c \in Calls :
        /\ IsAddressCall(c) /\ c.chain = "BTC" /\ c.opts.testnet /\ c.opts.regtest
        /\ c.res.ok /\ c.res.address.hrp = "bcrt"

(* C19: the testnet and regtest options change neither whether             *)
(* deriveAddressForChain succeeds nor the path and private key it returns; *)
(* on ETH, BSC, TRX, XRP and SOL they do not change the address, on BTC,   *)
(* LTC and DOGE a test-network address differs from the mainnet one.       *)
FlagsLeaveKeysUntouched ==
    \A c \in Calls :
        IsAddressCall(c) =>
            LET r == deriveAddressForChain(c.chain, c.seed, [c.opts EXCEPT !.testnet = FALSE, !.regtest = FALSE])
            IN  /\ r.ok = c.res.ok
                /\ c.res.ok =>
                      /\ r.path = c.res.path
                      /\ r.privateKeyHex = c.res.privateKeyHex
                      /\ r.privateKeyArray = c.res.privateKeyArray
                      /\ c.chain \in {"ETH", "BSC", "TRX", "XRP", "SOL"} => r.address = c.res.address
                      /\ (c.chain \in {"BTC", "LTC", "DOGE"} /\ (c.opts.testnet \/ c.opts.regtest)) =>
                            r.address # c.res.address

FlagsLeaveKeysUntouchedWitness ==
    \E c \in Calls :
        /\ IsAddressCall(c) /\ c.chain = "TRX" /\ c.opts.testnet /\ ~c.opts.regtest /\ c.res.ok
        /\ c.opts.index = Some(Small(1)) /\ c.res.address.ver = 65

(* what a recorded call returns when it is the only call made *)
RunAlone(c) ==
    CASE IsAddressCall(c) -> deriveAddressForChain(c.chain, c.seed, c.opts)
      [] IsXPubCall(c) -> deriveXPubForChain(c.chain, c.seed, c.opts)
      [] IsWatchCall(c) -> deriveWatchOnlyAddress(c.chain, c.xpub, c.change, c.index, c.testnet, c.regtest)

(* C20: in every interleaving of the three operations the network tables   *)
(* keep their initial contents, and each call returned what the same call  *)
(* returns over those tables on its own.                                   *)
InterleavingIndependence ==
    /\ litecoin = litecoinInit /\ dogecoin = dogecoinInit
    /\ testnetNetworks = testnetNetworksInit /\ regtestNetworks = regtestNetworksInit
    /\ \A c \in Calls : c.res = RunAlone(c)

InterleavingIndependenceWitness ==
    /\ Len(hist) = 3
    /\ IsWatchCall(hist[1]) /\ ~hist[1].testnet /\ hist[1].res.ok
    /\ IsAddressCall(hist[2]) /\ hist[2].chain = "LTC" /\ hist[2].opts.testnet /\ hist[2].res.ok
    /\ IsXPubCall(hist[3]) /\ hist[3].chain = "LTC" /\ hist[3].res.ok

FirstIndices == {Small(0), Small(1), Small(2)}

(* C21: without customPath, for a fixed chain, seed, account, change and   *)
(* network flags, the results of deriveAddressForChain at two different    *)
(* indices among 0, 1, 2 differ in path, in address and in private key.    *)
IndexUniqueness ==
    \A c \in Calls :
        (IsAddressCall(c) /\ ~HasCustomPath(c.opts) /\ c.res.ok
            /\ Nullish(c.opts.index, Small(0)) \in FirstIndices) =>
            \A j \in FirstIndices \ {Nullish(c.opts.index, Small(0))} :
                LET r == deriveAddressForChain(c.chain, c.seed, [c.opts EXCEPT !.index = Some(j)])
                IN  /\ c.chain # "SOL" => r.ok
                    /\ r.ok => /\ r.path # c.res.path
                               /\ r.address # c.res.address
                               /\ r.privateKeyHex # c.res.privateKeyHex

IndexUniquenessWitness ==
    \E c \in Calls :
        /\ IsAddressCall(c) /\ c.chain = "LTC" /\ c.res.ok /\ c.opts.customPath = Undef
        /\ c.opts.index = Some(Small(1)) /\ c.opts.account = Some(Small(1))
        /\ deriveAddressForChain("LTC", c.seed, [c.opts EXCEPT !.index = Some(Small(2))]).ok

WatchOnlyPathIsDerivationPath ==
    \A c \in Calls :
        (IsWatchCall(c) /\ c.res.ok) =>
            \A seed \in MakersOf(c.xpub), account \in KeyAccounts :
                LET o == MkOpts(Some(account), Some(c.change), Undef, Undef, c.testnet, c.regtest)
                    x == deriveXPubForChain(c.chain, seed, o)
                    a == deriveAddressForChain(c.chain, seed, [o EXCEPT !.index = Some(c.index)])
                IN  (x.ok /\ x.xpub = c.xpub /\ a.ok) => c.res.path = a.path

OtherChange(change) == IF change = Small(0) THEN Small(1) ELSE Small(0)

XpubIndependentOfIndex ==
    \A c \in Calls :
        (IsXPubCall(c) /\ c.res.ok) =>
            /\ c.res.xpub.depth = 4
            /\ c.res.xpub.key.path =
                  <<Plus(Small(ClaimedPurposeCoin[c.chain][1]), HIGHEST_BIT),
                    Plus(Small(ClaimedPurposeCoin[c.chain][2]), HIGHEST_BIT),
                    Plus(Nullish(c.opts.account, Small(0)), HIGHEST_BIT),
                    Nullish(c.opts.change, Small(0))>>
            /\ c.res.path[Len(c.res.path)] = Seg(Nullish(c.opts.index, Small(0)))
            /\ \A i \in Optional(IndexValues) :
                  LET r == deriveXPubForChain(c.chain, c.seed, [c.opts EXCEPT !.index = i])
                  IN  /\ r.ok /\ r.xpub = c.res.xpub
                      /\ r.path[Len(r.path)] = Seg(Nullish(i, Small(0)))

XpubIndependentOfIndexWitness ==
    \E c \in Calls :
        /\ IsXPubCall(c) /\ c.chain = "DOGE" /\ c.res.ok
        /\ c.opts.index = Some(Small(2)) /\ c.opts.account = Some(Small(1))
        /\ c.opts.change = Some(Small(1)) /\ c.res.xpub.depth = 4

IsChecksumCall(c) == c.op = "ethAddressFromUncompressed"

toLowerCase(ch) == [ch EXCEPT !.upper = FALSE]

(* hex digit i (from 0) of a byte string *)
NibbleAt(bytes, i) == IF i % 2 = 0 THEN bytes[(i \div 2) + 1] \div 16 ELSE bytes[(i \div 2) + 1] % 16

(* C26: ethAddressFromUncompressed returns '0x' and the hex digits of the  *)
(* last bytes of the key digest, digit i in upper case iff it is a letter  *)
(* and nibble i of the digest of the lower-case text is 8 or more;         *)
(* lower-casing the output gives back the plain hex text.                  *)
Eip55Encoding ==
    \A c \in Calls :
        IsChecksumCall(c) =>
            /\ c.res.prefix = "0x"
            /\ Len(c.res.chars) = 2 * Len(c.hashTail)
            /\ \A k \in 1..Len(c.res.chars) :
                  /\ c.res.chars[k].v = NibbleAt(c.hashTail, k - 1)
                  /\ c.res.chars[k].upper <=>
                        (NibbleAt(c.hashTail, k - 1) >= 10 /\ NibbleAt(c.chk, k - 1) >= 8)
            /\ [k \in 1..Len(c.res.chars) |-> toLowerCase(c.res.chars[k])] = hexString(c.hashTail)

(* 0x7a under 0xf8: the decimal 7 stays, the letter a is raised *)
Eip55EncodingWitness ==
    \E c \in Calls :
        /\ IsChecksumCall(c) /\ c.hashTail[1] = 122 /\ c.chk[1] = 248
        /\ c.res.chars[1] = [v |-> 7, upper |-> FALSE]
        /\ c.res.chars[2] = [v |-> 10, upper |-> TRUE]

(* C27: a successful watch-only Tron call returns Base58Check, version     *)
(* byte 0x41, over the 20 bytes the ETH watch-only pipeline hashes from    *)
(* the same key, and the call returns the same whatever the two flags.     *)
TronEncoding ==
    \A c \in Calls :
        (IsWatchCall(c) /\ c.chain = "TRX") =>
            /\ \A f \in Flags : deriveWatchOnlyAddress("TRX", c.xpub, c.change, c.index, f[1], f[2]) = c.res
            /\ c.res.ok =>
                  LET eth == deriveWatchOnlyETH(c.xpub, c.change, c.index)
                  IN  /\ c.res.address.enc = "base58check" /\ c.res.address.ver = 65
                      /\ eth.ok /\ c.res.address.data = eth.address.data
                      /\ c.res.address.data.h = "keccak256-last20"

TronEncodingWitness ==
    \E c \in Calls :
        /\ IsWatchCall(c) /\ c.chain = "TRX" /\ c.testnet /\ c.res.ok /\ c.index = Small(2)
        /\ c.xpub = deriveXPubForChain("TRX", Seed(1, 16),
                        MkOpts(Some(Small(0)), Some(Small(0)), Undef, Undef, TRUE, FALSE)).xpub

(* the child numbers along which the exported private key was derived *)
DerivedAlong(res) == res.privateKeyHex[1].bytes.path

(* C28 as stated: on a chain other than Solana and without customPath, a   *)
(* successful deriveAddressForChain derived purpose, coin and account as   *)
(* hardened steps and change and index as non-hardened steps, for every    *)
(* index it accepts.                                                       *)
HardeningInvariant ==
    \A c \in Calls :
        (IsAddressCall(c) /\ c.chain # "SOL" /\ ~HasCustomPath(c.opts) /\ c.res.ok) =>
            /\ Len(DerivedAlong(c.res)) = 5
            /\ \A k \in 1..3 : Leq(HIGHEST_BIT, DerivedAlong(c.res)[k])
            /\ \A k \in 4..5 : Less(DerivedAlong(c.res)[k], HIGHEST_BIT)

InRange(x) == x # Undef /\ Leq(Small(0), x[1]) /\ Leq(x[1], UInt31Max)

(* C29: with account and index both 2147483647 and no customPath,          *)
(* deriveAddressForChain succeeds on the seven secp256k1 chains for every  *)
(* seed the key tree accepts; on Solana it fails with 'Failed to derive    *)
(* Solana address' whenever account and index are each in range and their *)
(* sum is above 2147483647.                                                *)
UpperBounds ==
    \A c \in Calls :
        IsAddressCall(c) =>
            /\ (c.chain # "SOL" /\ c.seed \in ValidSeeds /\ ~HasCustomPath(c.opts)
                    /\ c.opts.account = Some(UInt31Max) /\ c.opts.index = Some(UInt31Max)) => c.res.ok
            /\ (c.chain = "SOL" /\ InRange(c.opts.account) /\ InRange(c.opts.index)
                    /\ Less(UInt31Max, SolSum(c.opts))) => c.res = Err("Failed to derive Solana address")

UpperBoundsWitness ==
    \E c \in Calls :
        /\ IsAddressCall(c) /\ c.chain = "XRP" /\ c.res.ok /\ c.opts.customPath = Undef
        /\ c.opts.account = Some(UInt31Max) /\ c.opts.index = Some(UInt31Max)
        /\ DerivedAlong(c.res)[3] = UInt32Max /\ DerivedAlong(c.res)[5] = UInt31Max

(* C30 as stated: the xpub field of a successful deriveAddressForChain     *)
(* (no customPath, non-hardened index) is accepted by                      *)
(* deriveWatchOnlyAddress with the same change, index and flags, gives the *)
(* same address, and is the xpub of deriveXPubForChain for the options.    *)
AddressXpubUsable ==
    \A c \in Calls :
        (IsAddressCall(c) /\ c.chain \in XPubChains /\ ~HasCustomPath(c.opts) /\ c.res.ok
            /\ NonHardened(Nullish(c.opts.index, Small(0)))) =>
            LET w == deriveWatchOnlyAddress(c.chain, c.res.xpub[1], Nullish(c.opts.change, Small(0)),
                                            Nullish(c.opts.index, Small(0)), c.opts.testnet, c.opts.regtest)
                x == deriveXPubForChain(c.chain, c.seed, c.opts)
            IN  /\ w.ok /\ w.address = c.res.address
                /\ x.ok /\ x.xpub = c.res.xpub[1]

====
